---- MODULE Spec2Model ----
(***************************************************************************)
(* Model of extras/graph/grapher.py: the include extractor, the file node  *)
(* (GraphFile), the graph collection (GraphSet) and its renderer.          *)
(*                                                                         *)
(* A Python str is a sequence of one-character strings.  A file on disk is *)
(* a sequence of lines, each line ending with a newline.                   *)
(***************************************************************************)
EXTENDS Integers, Sequences, FiniteSets, TLC

VARIABLES
    mode,        \* GraphSet.mode
    standalone,  \* GraphSet.standalone (None or a module name)
    known_only,  \* GraphSet.known_only
    color,       \* GraphSet.color
    colors,      \* GraphSet.colors: position of cycle(COLOR_LIST), 0-based
    files,       \* GraphSet.files
    source,      \* what was on disk for files[i]: its lines and where reading failed
    pc,          \* position of the program
    cleanup,     \* render's argument
    view,        \* render's argument
    gv,          \* the description file <output><name>.gv: absent, open, closed
    gvText,      \* what has been written to the description file
    pdf,         \* the PDF <output><name>.pdf: absent, stale, fresh
    dotRuns,     \* invocations of the layout tool so far
    viewed,      \* invocations of the viewer so far
    raised       \* the exception that left render, or "none"

vars == <<mode, standalone, known_only, color, colors, files, source, pc,
          cleanup, view, gv, gvText, pdf, dotRuns, viewed, raised>>

----------------------------------------------------------------------------
(* Python values *)

None == [some |-> FALSE]
Some(v) == [some |-> TRUE, val |-> v]

E == << >>
SP == <<" ">>
TAB == <<"\t">>
NL == <<"\n">>

\* x[1:-1]
StripEnds(x) == SubSeq(x, 2, Len(x) - 1)

\* ''.join(ss)
RECURSIVE Flatten(_)
Flatten(ss) == IF ss = << >> THEN << >> ELSE Head(ss) \o Flatten(Tail(ss))

----------------------------------------------------------------------------
(* re.findall(r'\s*#\s*include\s+(\S+)', line) *)

IsSpace(c) == c \in {" ", "\t", "\n", "\r", "\f"}

\* the first position >= i that holds no whitespace (Len(s)+1 when there is none)
RECURSIVE SkipSpace(_, _)
SkipSpace(s, i) ==
    IF i <= Len(s) /\ IsSpace(s[i]) THEN SkipSpace(s, i + 1) ELSE i

\* the first position >= i that holds whitespace (Len(s)+1 when there is none)
RECURSIVE SkipNonSpace(_, _)
SkipNonSpace(s, i) ==
    IF i <= Len(s) /\ ~IsSpace(s[i]) THEN SkipNonSpace(s, i + 1) ELSE i

HasAt(s, i, w) == i + Len(w) - 1 <= Len(s) /\ SubSeq(s, i, i + Len(w) - 1) = w

Keyword == <<"i", "n", "c", "l", "u", "d", "e">>

\* the pattern tried at position i: every quantifier is greedy and the classes
\* that meet (\s* then '#', \s+ then \S+) are disjoint, so there is one way to match
MatchAt(s, i) ==
    LET hash  == SkipSpace(s, i)
        kw    == SkipSpace(s, hash + 1)
        sep   == kw + Len(Keyword)
        tok   == SkipSpace(s, sep)
        stop  == SkipNonSpace(s, tok)
        found == /\ HasAt(s, hash, <<"#">>)
                 /\ HasAt(s, kw, Keyword)
                 /\ tok > sep
                 /\ stop > tok
    IN  IF found THEN [ok |-> TRUE, group |-> SubSeq(s, tok, stop - 1), end |-> stop]
                 ELSE [ok |-> FALSE, group |-> E, end |-> i]

\* the non-overlapping matches from position i on, leftmost first
RECURSIVE FindAllFrom(_, _)
FindAllFrom(s, i) ==
    IF i > Len(s) THEN << >>
    ELSE LET m == MatchAt(s, i)
         IN  IF m.ok THEN <<m.group>> \o FindAllFrom(s, m.end)
                     ELSE FindAllFrom(s, i + 1)

FindAll(s) == FindAllFrom(s, 1)

----------------------------------------------------------------------------
(* GraphFile *)

\* [x[1:-1] for x in re.findall(..., line) if x]
RECURSIVE LineIncludes(_)
LineIncludes(groups) ==
    IF groups = << >> THEN << >>
    ELSE (IF Head(groups) # E THEN <<StripEnds(Head(groups))>> ELSE << >>)
         \o LineIncludes(Tail(groups))

\* The comprehension over the open file.  failAt = None: every line is read.
\* failAt = Some(k): open() or the read raises once k lines have been read.
\* The value is the list built so far and whether the exception was raised.
RECURSIVE Comprehension(_, _, _)
Comprehension(lines, failAt, k) ==
    IF failAt.some /\ failAt.val = k THEN [raised |-> TRUE, list |-> << >>]
    ELSE IF k = Len(lines) THEN [raised |-> FALSE, list |-> << >>]
    ELSE LET rest == Comprehension(lines, failAt, k + 1)
         IN  [raised |-> rest.raised,
              list   |-> LineIncludes(FindAll(lines[k + 1])) \o rest.list]

\* the elements of s without those that occurred before
RECURSIVE Unique(_)
Unique(s) ==
    IF s = << >> THEN << >>
    ELSE LET front == Unique(SubSeq(s, 1, Len(s) - 1))
             last  == s[Len(s)]
         IN  IF \E i \in 1..Len(front) : front[i] = last THEN front
             ELSE Append(front, last)

\* a variant that drops repeated targets
GetIncludeListUnique(lines, failAt) ==
    LET r == Comprehension(lines, failAt, 0)
    IN  IF r.raised THEN << >> ELSE Unique(r.list)

\* a variant that keeps what was read before the exception
GetIncludeListPartial(lines, failAt) == Comprehension(lines, failAt, 0).list

\* GraphFile._get_include_list: try the comprehension, [] on any exception
GetIncludeList(lines, failAt) ==
    LET r == Comprehension(lines, failAt, 0)
    IN  IF r.raised THEN << >> ELSE r.list

\* GraphFile.__init__; lines and failAt are what open(path+name+ext) gives
GraphFile(name, ext, path, col, lines, failAt) ==
    [name |-> name, ext |-> ext, path |-> path, color |-> col,
     includes |-> GetIncludeList(lines, failAt)]


\* os.path.splitext on POSIX: the extension starts at the last dot of the last
\* path component, unless only dots precede it there
RFind(p, c) ==
    LET at == {i \in 1..Len(p) : p[i] = c}
    IN  IF at = {} THEN 0 ELSE CHOOSE i \in at : \A j \in at : j <= i

SplitExt(p) ==
    LET sepIndex == RFind(p, "/")
        dotIndex == RFind(p, ".")
    IN  IF dotIndex > sepIndex /\ \E k \in (sepIndex + 1)..(dotIndex - 1) : p[k] # "."
        THEN <<SubSeq(p, 1, dotIndex - 1), SubSeq(p, dotIndex, Len(p))>>
        ELSE <<p, E>>

\* a variant that matches on the base name alone
KnownByName(x, fs) == \E i \in 1..Len(fs) : fs[i].name = SplitExt(x)[1]

\* any((y.name+y.ext) == x for y in files)
Known(x, fs) == \E i \in 1..Len(fs) : fs[i].name \o fs[i].ext = x

\* One edge statement: "<node>" [color=.., fontcolor=..] "<node>" -> {"t1" "t2" ..}
\* [color=..], kept as the values that fill the template
Chunk(kind, node, col, targets) ==
    [kind |-> kind, node |-> node, color |-> col, targets |-> targets]

Statement(node, col, targets) == Chunk("edges", node, col, targets)

\* GraphFile.__str__(files): fs is None or Some(files)
GraphFileStr(f, fs) ==
    Statement(f.name \o f.ext, f.color,
              IF ~fs.some THEN f.includes
              ELSE SelectSeq(f.includes, LAMBDA x : Known(x, fs.val)))

\* a variant that keeps self-edges
GraphFileReprSelf(f, fs) ==
    LET kept == IF ~fs.some THEN f.includes
                ELSE SelectSeq(f.includes, LAMBDA x : Known(x, fs.val))
    IN  Statement(f.name, f.color, [i \in 1..Len(kept) |-> SplitExt(kept[i])[1]])

\* GraphFile.__repr__(files): fs is None or Some(files)
GraphFileRepr(f, fs) ==
    LET kept == IF ~fs.some
                THEN SelectSeq(f.includes, LAMBDA x : SplitExt(x)[1] # f.name)
                ELSE SelectSeq(f.includes,
                               LAMBDA x : SplitExt(x)[1] # f.name /\ Known(x, fs.val))
    IN  Statement(f.name, f.color, [i \in 1..Len(kept) |-> SplitExt(kept[i])[1]])

----------------------------------------------------------------------------
(* Files on disk.  A line is written as the directives it holds, left to   *)
(* right, after any other text; a directive as the pieces of               *)
(*   <lead>#<gap>include<sep><open><name><close><tail>                     *)

Dir(lead, gap, sep, open, name, close, tail) ==
    [lead |-> lead, gap |-> gap, sep |-> sep, open |-> open, name |-> name,
     close |-> close, tail |-> tail]

Quoted(name) == Dir(E, E, SP, <<"\"">>, name, <<"\"">>, E)
Angled(name) == Dir(E, E, SP, <<"<">>, name, <<">">>, E)

Line(other, dirs) == [other |-> other, dirs |-> dirs]

DirText(d) ==
    d.lead \o <<"#">> \o d.gap \o Keyword \o d.sep \o d.open \o d.name \o d.close
    \o d.tail

LineText(l) ==
    l.other \o Flatten([i \in 1..Len(l.dirs) |-> DirText(l.dirs[i])]) \o NL

\* what iterating over the open file yields
FileLines(written) == [i \in 1..Len(written) |-> LineText(written[i])]

\* the directives of a file in the order they are written
RECURSIVE Directives(_)
Directives(written) ==
    IF written = << >> THEN << >>
    ELSE Head(written).dirs \o Directives(Tail(written))

----------------------------------------------------------------------------
(* GraphSet *)

COLOR_LIST == <<
    "aquamarine4", "bisque4", "black", "blue", "blueviolet", "brown", "cadetblue",
    "chartreuse4", "chocolate", "coral2", "crimson",
    "cyan3", "fuchsia", "gold3", "gray50", "green4", "indigo", "magenta", "maroon",
    "olive", "orange3",
    "orchid3", "plum", "purple", "red", "royalblue", "salmon", "seagreen", "sienna",
    "skyblue4", "teal",
    "tomato", "turquoise4", "violetred", "yellow3" >>

\* the name argument of GraphSet, at its default
SetName == <<"s", "e", "t">>

\* GraphSet.__str__: the statements that '\n'.join puts one per line
GraphSetStr ==
    IF known_only = FALSE
    THEN [i \in 1..Len(files) |-> GraphFileStr(files[i], None)]
    ELSE [i \in 1..Len(files) |-> GraphFileStr(files[i], Some(files))]

\* GraphSet.__repr__
GraphSetRepr ==
    IF known_only = FALSE
    THEN [i \in 1..Len(files) |-> GraphFileRepr(files[i], None)]
    ELSE [i \in 1..Len(files) |-> GraphFileRepr(files[i], Some(files))]

\* the position in files of the first file named name, 0 when there is none
FirstNamed(name) ==
    LET at == {i \in 1..Len(files) : files[i].name = name}
    IN  IF at = {} THEN 0 ELSE CHOOSE i \in at : \A j \in at : i <= j

\* a variant that never looks for a file of the same name
PickColorNext(name) ==
    IF ~color THEN [color |-> "black", colors |-> colors]
    ELSE [color |-> COLOR_LIST[colors + 1], colors |-> (colors + 1) % Len(COLOR_LIST)]

\* a variant that draws from the palette even when it reuses a color
PickColorDraw(name) ==
    LET first == FirstNamed(name)
    IN  IF ~color THEN [color |-> "black", colors |-> colors]
        ELSE [color  |-> IF first # 0 THEN files[first].color
                         ELSE COLOR_LIST[colors + 1],
              colors |-> (colors + 1) % Len(COLOR_LIST)]

\* The color of a new file named name, and the palette position afterwards:
\* 'black', or with color mode the color of the first file of that name, or else
\* next(self.colors)
PickColor(name) ==
    LET first == FirstNamed(name)
    IN  IF ~color THEN [color |-> "black", colors |-> colors]
        ELSE IF first # 0 THEN [color |-> files[first].color, colors |-> colors]
        ELSE [color  |-> COLOR_LIST[colors + 1],
              colors |-> (colors + 1) % Len(COLOR_LIST)]

\* One turn of the loop of GraphSet._get_dir_files for a directory entry that is
\* a file: entry is its file name, written the lines the file holds, failAt where
\* reading it fails.
GetDirFile(entry, path, written, failAt) ==
    LET name == SplitExt(entry)[1]
        ext  == SplitExt(entry)[2]
        pick == PickColor(name)
    IN  /\ pc = "init"
        /\ files' = Append(files, GraphFile(name, ext, path, pick.color,
                                            FileLines(written), failAt))
        /\ colors' = pick.colors
        /\ source' = Append(source, [written |-> written, failAt |-> failAt])
        /\ UNCHANGED <<mode, standalone, known_only, color, pc, cleanup, view,
                       gv, gvText, pdf, dotRuns, viewed, raised>>

----------------------------------------------------------------------------
(* GraphSet.render *)

\* a variant that matches known files among the standalone files only
RECURSIVE FileBodyNarrow(_)
FileBodyNarrow(i) ==
    LET shown == SelectSeq(files, LAMBDA y : ~standalone.some \/ standalone.val = y.name)
    IN  IF i > Len(files) THEN << >>
        ELSE IF standalone.some /\ standalone.val # files[i].name
             THEN FileBodyNarrow(i + 1)
        ELSE IF known_only = FALSE
             THEN <<GraphFileStr(files[i], None)>> \o FileBodyNarrow(i + 1)
             ELSE <<GraphFileStr(files[i], Some(shown))>> \o FileBodyNarrow(i + 1)

\* the statements render writes in mode 'file'
RECURSIVE FileBody(_)
FileBody(i) ==
    IF i > Len(files) THEN << >>
    ELSE IF standalone.some /\ standalone.val # files[i].name THEN FileBody(i + 1)
    ELSE IF known_only = FALSE
         THEN <<GraphFileStr(files[i], None)>> \o FileBody(i + 1)
         ELSE <<GraphFileStr(files[i], Some(files))>> \o FileBody(i + 1)

\* the statements render writes in mode 'module'
RECURSIVE ModuleBody(_)
ModuleBody(i) ==
    IF i > Len(files) THEN << >>
    ELSE IF standalone.some /\ standalone.val # files[i].name THEN ModuleBody(i + 1)
    ELSE IF known_only = FALSE
         THEN <<GraphFileRepr(files[i], None)>> \o ModuleBody(i + 1)
         ELSE <<GraphFileRepr(files[i], Some(files))>> \o ModuleBody(i + 1)

Header == Chunk("digraph", SetName, "", E)
Footer == Chunk("}", E, "", E)

\* the exceptions render raises
DotNotFound == "OSError: dot executable not found"
OsNotHandled == "OSError: OS is not handled for auto viewing"

\* dot = open(<output><name>.gv, 'w')
RenderOpen(c, v) ==
    /\ pc = "init"
    /\ cleanup' = c
    /\ view' = v
    /\ gv' = "open"
    /\ gvText' = << >>
    /\ pc' = "write"
    /\ UNCHANGED <<mode, standalone, known_only, color, colors, files, source,
                   pdf, dotRuns, viewed, raised>>

\* every dot.write of render, the header first and the closing brace last
RenderWrite ==
    /\ pc = "write"
    /\ gvText' = gvText \o <<Header>>
                 \o (IF mode = "file" THEN FileBody(1) ELSE << >>)
                 \o (IF mode = "module" THEN ModuleBody(1) ELSE << >>)
                 \o <<Footer>>
    /\ pc' = "close"
    /\ UNCHANGED <<mode, standalone, known_only, color, colors, files, source,
                   cleanup, view, gv, pdf, dotRuns, viewed, raised>>

\* dot.close()
RenderClose ==
    /\ pc = "close"
    /\ gv' = "closed"
    /\ pc' = "which"
    /\ UNCHANGED <<mode, standalone, known_only, color, colors, files, source,
                   cleanup, view, gvText, pdf, dotRuns, viewed, raised>>

\* a variant that leaves the description file behind
RenderWhichKeep(found) ==
    /\ pc = "which"
    /\ raised' = IF found THEN raised ELSE DotNotFound
    /\ pc' = IF found THEN "dot" ELSE "raised"
    /\ UNCHANGED <<mode, standalone, known_only, color, colors, files, source,
                   cleanup, view, gv, gvText, pdf, dotRuns, viewed>>

\* if shutil.which('dot') is None: remove the description file and raise
RenderWhich(found) ==
    /\ pc = "which"
    /\ gv' = IF found THEN gv ELSE "absent"
    /\ raised' = IF found THEN raised ELSE DotNotFound
    /\ pc' = IF found THEN "dot" ELSE "raised"
    /\ UNCHANGED <<mode, standalone, known_only, color, colors, files, source,
                   cleanup, view, gvText, pdf, dotRuns, viewed>>

\* subprocess.run(['dot', '-Tpdf', ...], check=True): ok is whether dot exits 0
RenderDot(ok) ==
    /\ pc = "dot"
    /\ dotRuns' = dotRuns + 1
    /\ pdf' = IF ok THEN "fresh" ELSE pdf
    /\ raised' = IF ok THEN raised ELSE "CalledProcessError"
    /\ pc' = IF ok THEN "cleanup" ELSE "raised"
    /\ UNCHANGED <<mode, standalone, known_only, color, colors, files, source,
                   cleanup, view, gv, gvText, viewed>>

\* a variant that removes the description file whatever cleanup is
RenderCleanupAlways ==
    /\ pc = "cleanup"
    /\ gv' = "absent"
    /\ pc' = "view"
    /\ UNCHANGED <<mode, standalone, known_only, color, colors, files, source,
                   cleanup, view, gvText, pdf, dotRuns, viewed, raised>>

\* if cleanup is True: os.remove(<output><name>.gv)
RenderCleanup ==
    /\ pc = "cleanup"
    /\ gv' = IF cleanup = TRUE THEN "absent" ELSE gv
    /\ pc' = "view"
    /\ UNCHANGED <<mode, standalone, known_only, color, colors, files, source,
                   cleanup, view, gvText, pdf, dotRuns, viewed, raised>>

\* if view is True: self._default_open(<output><name>.pdf).  platform is whether
\* sys.platform has a viewer, ok whether the viewer exits 0
RenderView(platform, ok) ==
    /\ pc = "view"
    /\ viewed' = IF view = TRUE /\ platform THEN viewed + 1 ELSE viewed
    /\ raised' = IF view # TRUE THEN raised
                 ELSE IF ~platform THEN OsNotHandled
                 ELSE IF ~ok THEN "CalledProcessError"
                 ELSE raised
    /\ pc' = IF view = TRUE /\ ~(platform /\ ok) THEN "raised" ELSE "done"
    /\ UNCHANGED <<mode, standalone, known_only, color, colors, files, source,
                   cleanup, view, gv, gvText, pdf, dotRuns>>


----------------------------------------------------------------------------
(* The program: GraphSet(dir_list, ...) scans the directories file by file, *)
(* then render(cleanup, view) runs.                                         *)

AH == <<"a", ".", "h">>
AC == <<"a", ".", "c">>
BC == <<"b", ".", "c">>
BH == <<"b", ".", "h">>
XH == <<"x", ".", "h">>
DAH == <<"d", "/", "a", ".", "h">>
DirP == <<"p", "/">>
DirQ == <<"q", "/">>

MaxFiles == 2

\* GraphSet.__init__ before the first directory is scanned; the output directory
\* holds no description file yet, and no PDF or one of an earlier run
Start(modes, standalones, knowns, colorModes, gvs, pdfs) ==
    /\ mode \in modes
    /\ standalone \in standalones
    /\ known_only \in knowns
    /\ color \in colorModes
    /\ colors = 0
    /\ files = << >>
    /\ source = << >>
    /\ pc = "init"
    /\ cleanup = FALSE
    /\ view = FALSE
    /\ gv \in gvs
    /\ gvText = << >>
    /\ pdf \in pdfs
    /\ dotRuns = 0
    /\ viewed = 0
    /\ raised = "none"

\* a.c-like sources: one includes "a.h" and <x.h>, the other "d/a.h" and "b.c"
TextA == <<Line(E, <<Quoted(AH)>>), Line(E, <<Angled(XH)>>)>>
TextB == <<Line(E, <<Quoted(DAH)>>), Line(E, <<Quoted(BC)>>)>>

\* what a scanned file holds and where reading it fails
Readings ==
    {<<TextA, None>>, <<TextA, Some(0)>>, <<TextA, Some(1)>>, <<TextB, None>>}

\* every mode, with and without a standalone module and known-only filtering;
\* color mode is on, so that the statements differ in color
Init ==
    Start({"file", "module"}, {None, Some(<<"a">>)}, BOOLEAN, {TRUE},
          {"absent"}, {"absent", "stale"})

Scan ==
    /\ Len(files) < MaxFiles
    /\ \E entry \in {AC, AH, BC}, r \in Readings :
          GetDirFile(entry, DirP, r[1], r[2])

\* graph_set.render(args.cleanup, args.view)
Open == \E c \in BOOLEAN, v \in BOOLEAN : RenderOpen(c, v)
Write == RenderWrite
Close == RenderClose
Which == \E found \in BOOLEAN : RenderWhich(found)
Dot == \E ok \in BOOLEAN : RenderDot(ok)
Cleanup == RenderCleanup
View == \E platform \in BOOLEAN, ok \in BOOLEAN : RenderView(platform, ok)

Next == Scan \/ Open \/ Write \/ Close \/ Which \/ Dot \/ Cleanup \/ View

Spec == Init /\ [][Next]_vars


----------------------------------------------------------------------------
(* The include extractor alone: one file of any of the texts below is      *)
(* scanned into an empty collection.                                        *)

MaxLines == 2

Delims == {<<(<<"\"">>), (<<"\"">>)>>, <<(<<"<">>), (<<">">>)>>}

\* directives written the usual way, with or without text after the closing
\* delimiter
UsualDirs ==
    {Dir(E, E, SP, d[1], n, d[2], t) : d \in Delims, n \in {AH, BH}, t \in {E, <<";">>}}

\* directives written with blanks inside
SpacedDirs ==
    {Dir(SP, SP, SP \o TAB, <<"<">>, AH, <<">">>, E),
     Dir(TAB, E, TAB, <<"\"">>, BH, <<"\"">>, <<"/", "/", "x">>)}

\* a second directive on a line is set off from the first by a blank
SecondDirs == {Dir(SP, E, SP, d[1], n, d[2], E) : d \in Delims, n \in {AH, BH}}

\* lines the pattern finds nothing in: a declaration, and an include written
\* without a blank before its target
OtherLines ==
    {Line(<<"i", "n", "t", " ", "a", ";">>, << >>),
     Line(<<"#">> \o Keyword \o <<"<", "a", ">">>, << >>)}

ExtractLines ==
    {Line(E, <<d>>) : d \in UsualDirs \cup SpacedDirs}
    \cup {Line(E, <<d, e>>) : d \in {Quoted(AH), Angled(AH), Quoted(BH), Angled(BH)},
                             e \in SecondDirs}
    \cup OtherLines

ExtractTexts == UNION {[1..n -> ExtractLines] : n \in 0..MaxLines}

InitExtract == Start({"file"}, {None}, {FALSE}, {FALSE}, {"absent"}, {"absent"})

ScanOne ==
    /\ files = << >>
    /\ \E written \in ExtractTexts : GetDirFile(AC, DirP, written, None)

NextExtract == ScanOne

SpecExtract == InitExtract /\ [][NextExtract]_vars

----------------------------------------------------------------------------
(* Color assignment: more base names than COLOR_LIST has colors are        *)
(* scanned, and some base names come back with another extension in        *)
(* another directory.                                                       *)

MaxExtra == 2
MaxRepeats == 1

DigitChar == <<"0", "1", "2", "3", "4", "5", "6", "7", "8", "9">>

RECURSIVE Decimal(_)
Decimal(k) ==
    IF k < 10 THEN <<DigitChar[k + 1]>>
    ELSE Decimal(k \div 10) \o <<DigitChar[(k % 10) + 1]>>

\* the k-th base name: f1, f2, ...
BaseName(k) == <<"f">> \o Decimal(k)

BaseNames == {files[i].name : i \in 1..Len(files)}

InitColor == Start({"file"}, {None}, {FALSE}, BOOLEAN, {"absent"}, {"absent"})

\* a file with a base name not seen before
ScanNew ==
    /\ Cardinality(BaseNames) < Len(COLOR_LIST) + MaxExtra
    /\ GetDirFile(BaseName(Cardinality(BaseNames) + 1) \o <<".", "c">>, DirP,
                  << >>, None)

\* a file with one of the first base names again, as a header of another
\* directory
ScanSame ==
    /\ Len(files) - Cardinality(BaseNames) < MaxRepeats
    /\ \E k \in 1..MaxExtra :
          /\ k <= Cardinality(BaseNames)
          /\ GetDirFile(BaseName(k) \o <<".", "h">>, DirQ, << >>, None)

NextColor == ScanNew \/ ScanSame

SpecColor == InitColor /\ [][NextColor]_vars


----------------------------------------------------------------------------
(* Properties *)

Range(s) == {s[i] : i \in 1..Len(s)}
Stem(x) == SplitExt(x)[1]

\* the include string equals base name + extension of some file of the collection
Resolves(x) == \E j \in 1..Len(files) : x = files[j].name \o files[j].ext

\* a directive written as "name" or <name> with nothing after the closing delimiter
Clean(d) ==
    /\ <<d.open, d.close>> \in Delims
    /\ d.tail = E

\* C2: the extractor returns one entry per include directive of the file, in the
\* order the directives are written (line by line, left to right in a line); a
\* directive written cleanly yields its target, so a target included k times is
\* there k times; and the file-mode statement has exactly these entries as targets.
C2_OneEntryPerDirective ==
    files # << >> =>
        LET W   == Directives(source[1].written)
            inc == files[1].includes
        IN  /\ Len(inc) = Len(W)
            /\ \A i \in 1..Len(W) : Clean(W[i]) => i <= Len(inc) /\ inc[i] = W[i].name
            /\ GraphFileStr(files[1], None).targets = inc
            /\ GraphSetStr[1].targets = inc

\* a file that includes the same target twice, and another target between or after
C2_Witness ==
    /\ files # << >>
    /\ LET W == Directives(source[1].written)
       IN  /\ \E i, j \in 1..Len(W) :
                i < j /\ Clean(W[i]) /\ Clean(W[j]) /\ W[i].name = W[j].name
           /\ Len(source[1].written) < Len(W)
           /\ Len(files[1].includes) >= 3

\* C3: every entry the extractor returns is the name written between the
\* delimiters of its directive, whatever follows the closing delimiter.
C3_EntryIsName ==
    files # << >> =>
        LET W   == Directives(source[1].written)
            inc == files[1].includes
        IN  \A i \in 1..Len(W) :
                <<W[i].open, W[i].close>> \in Delims
                    => i <= Len(inc) /\ inc[i] = W[i].name


----------------------------------------------------------------------------
(* Properties of the collection's renderings *)

\* the targets of file i in str(graph_set) and in repr(graph_set)
StrTargets(i) == Range(GraphSetStr[i].targets)
ReprTargets(i) == Range(GraphSetRepr[i].targets)

\* the includes of file i
Includes(i) == Range(files[i].includes)

\* an include of file i that leads back to the module of file i
SelfEdge(i, x) == Stem(x) = files[i].name

\* C1 as amended: with known-only filtering, in file mode the rendered targets of
\* a file are exactly its includes that equal base name + extension of a scanned
\* file, and in module mode the module names of exactly those of them that are
\* no self-edge; without known-only filtering every include is rendered in file
\* mode, and in module mode every include that is no self-edge.
C1_KnownOnlyTargets ==
    \A i \in 1..Len(files) :
        /\ known_only =>
             /\ StrTargets(i) = {x \in Includes(i) : Resolves(x)}
             /\ ReprTargets(i) =
                  {Stem(x) : x \in {y \in Includes(i) : Resolves(y) /\ ~SelfEdge(i, y)}}
        /\ ~known_only =>
             /\ GraphSetStr[i].targets = files[i].includes
             /\ ReprTargets(i) = {Stem(x) : x \in {y \in Includes(i) : ~SelfEdge(i, y)}}

\* known-only filtering at work: a file with an include that resolves, one that
\* does not and is hidden, and a resolving self-edge hidden in module mode
C1_Witness ==
    /\ known_only
    /\ pc = "done"
    /\ \E i \in 1..Len(files) :
          /\ \E x, y \in Includes(i) :
                /\ Resolves(x) /\ SelfEdge(i, x)
                /\ ~Resolves(y) /\ y \notin StrTargets(i)
                /\ x \in StrTargets(i) /\ Stem(x) \notin ReprTargets(i)

\* C1 as stated: as C1_KnownOnlyTargets, but without known-only filtering every
\* include is rendered as an edge target in module mode too.
C1_Original ==
    \A i \in 1..Len(files) :
        /\ known_only =>
             /\ StrTargets(i) = {x \in Includes(i) : Resolves(x)}
             /\ ReprTargets(i) =
                  {Stem(x) : x \in {y \in Includes(i) : Resolves(y) /\ ~SelfEdge(i, y)}}
        /\ ~known_only =>
             /\ GraphSetStr[i].targets = files[i].includes
             /\ ReprTargets(i) = {Stem(x) : x \in Includes(i)}

\* the description document is written in full
Written == Len(gvText) >= 2 /\ gvText[1] = Header /\ gvText[Len(gvText)] = Footer

\* the statements of the document
Body == SubSeq(gvText, 2, Len(gvText) - 1)

\* C4: in the per-module rendering, with or without known-only filtering, no edge
\* target of a file's statement is the file's own module name, in repr(graph_set)
\* and in the document render writes in mode 'module'.
C4_NoSelfEdge ==
    /\ \A i \in 1..Len(files) : files[i].name \notin ReprTargets(i)
    /\ (mode = "module" /\ Written) =>
          \A k \in 1..Len(Body) : Body[k].node \notin Range(Body[k].targets)

\* a module document of a file that includes its own header, next to an include
\* with a directory prefix and the same base name, which is rendered
C4_Witness ==
    /\ mode = "module"
    /\ pc = "done"
    /\ \E i \in 1..Len(files) :
          /\ \E x \in Includes(i) : SelfEdge(i, x)
          /\ \E k \in 1..Len(Body) :
                Body[k].node = files[i].name /\ Body[k].targets # << >>
    /\ \E i \in 1..Len(files) :
          /\ DAH \in Includes(i)
          /\ files[i].name = <<"a">>
          /\ ~known_only
          /\ <<"d", "/", "a">> \in ReprTargets(i)

\* C7: a file that cannot be opened, or whose read fails part-way, has an empty
\* include list (nothing read before the failure is kept); its node is in the
\* collection all the same, no exception leaves the scan, and the files scanned
\* after it get their include lists.
C7_UnreadableIsEmpty ==
    /\ Len(files) = Len(source)
    /\ \A i \in 1..Len(files) :
          /\ source[i].failAt.some => files[i].includes = << >>
          /\ ~source[i].failAt.some =>
                Len(files[i].includes) = Len(Directives(source[i].written))
    /\ pc = "init" => raised = "none"

\* a read that fails after a line with a directive, then a readable file
C7_Witness ==
    /\ Len(files) = 2
    /\ source[1].failAt.some
    /\ source[1].failAt.val = 1
    /\ source[1].written[1].dirs # << >>
    /\ files[2].includes # << >>

\* the positions of the files that pass the standalone filter, in scan order
RECURSIVE Shown(_)
Shown(i) ==
    IF i > Len(files) THEN << >>
    ELSE IF standalone.some /\ standalone.val # files[i].name THEN Shown(i + 1)
    ELSE <<i>> \o Shown(i + 1)

\* C9: the document is the header naming the set, one statement per file that
\* passes the standalone filter, in scan order, and the closing brace; the
\* statements are those of str(graph_set) in mode 'file' and of repr(graph_set)
\* in mode 'module', so known-only matching is against every scanned file, and a
\* file without rendered includes has a statement with no targets.
C9_Document ==
    gvText # << >> =>
        /\ Written
        /\ Header.node = SetName
        /\ Len(Body) = Len(Shown(1))
        /\ \A k \in 1..Len(Body) :
              LET i == Shown(1)[k]
              IN  /\ Body[k].kind = "edges"
                  /\ mode = "file" =>
                        /\ Body[k] = GraphSetStr[i]
                        /\ Body[k].node = files[i].name \o files[i].ext
                        /\ known_only =>
                              Range(Body[k].targets) = {x \in Includes(i) : Resolves(x)}
                  /\ mode = "module" =>
                        /\ Body[k] = GraphSetRepr[i]
                        /\ Body[k].node = files[i].name

\* a standalone document in file mode with known-only filtering: the file left
\* out of the document is the one known target of the file in it
C9_Witness ==
    /\ pc = "done"
    /\ mode = "file"
    /\ known_only
    /\ standalone.some
    /\ Len(files) = 2
    /\ Len(Body) = 1
    /\ Len(files[1].includes) = 2
    /\ files[2].name # standalone.val
    /\ Body[1].targets = <<files[2].name \o files[2].ext>>


----------------------------------------------------------------------------
(* Properties of render *)

\* the step removes the description file
GvRemoved == gv # "absent" /\ gv' = "absent"

\* the step invokes the layout tool
DotInvoked == dotRuns' = dotRuns + 1

\* the step opens the viewer
ViewerOpened == viewed' = viewed + 1

\* the layout tool has run and exited 0
DotSucceeded == dotRuns = 1 /\ pc \in {"cleanup", "view", "done"}

\* C8 as amended: the description file is written in full and closed before the
\* layout tool is invoked; it is removed either because the dot executable is not
\* found (before the layout tool is ever invoked, whatever cleanup is) or after the
\* layout tool has succeeded and cleanup is requested; the viewer is opened only
\* after the PDF has been produced and only when view is requested; after a
\* successful render the PDF exists, and the description file exists exactly when
\* cleanup is not requested.
C8_RenderOrder ==
    /\ [][/\ DotInvoked => (gv = "closed" /\ Written)
          /\ GvRemoved => \/ DotSucceeded /\ cleanup = TRUE
                          \/ raised' = DotNotFound /\ dotRuns' = 0
          /\ ViewerOpened => (pdf = "fresh" /\ DotSucceeded /\ view = TRUE)]_vars
    /\ [](pc = "done" =>
            /\ pdf = "fresh"
            /\ cleanup = TRUE => gv = "absent"
            /\ cleanup # TRUE => gv = "closed" /\ Written)

\* a render with cleanup and view that went through: the tool ran once, the
\* description file is gone, the PDF is there and the viewer was opened
C8_Witness ==
    /\ pc = "done"
    /\ cleanup = TRUE
    /\ view = TRUE
    /\ dotRuns = 1
    /\ viewed = 1
    /\ gv = "absent"
    /\ pdf = "fresh"
    /\ files # << >>

\* C8 as stated: the description file is deleted only after the layout tool has
\* succeeded and only when cleanup is requested.
C8_Original == [][GvRemoved => (DotSucceeded /\ cleanup = TRUE)]_vars

\* C10: when the dot executable is not found, the description file just written
\* is removed and an OSError is raised; the layout tool has not been and is never
\* invoked, no PDF is produced and the viewer is never opened, whatever cleanup and
\* view are.
C10_DotNotFound ==
    /\ [](raised = DotNotFound =>
            /\ pc = "raised"
            /\ Written
            /\ gv = "absent"
            /\ dotRuns = 0
            /\ pdf # "fresh"
            /\ viewed = 0)
    /\ [][pc = "which" /\ pc' # "dot" => raised' = DotNotFound /\ gv' = "absent"]_vars
    /\ [][raised # DotNotFound]_vars

\* dot is missing in a render asked to clean up and to view, with a PDF of an
\* earlier run in the output directory
C10_Witness ==
    /\ raised = DotNotFound
    /\ cleanup = TRUE
    /\ view = TRUE
    /\ pdf = "stale"
    /\ files # << >>


----------------------------------------------------------------------------
(* Properties of the color assignment *)

\* the entries of COLOR_LIST
PaletteSize == 35

\* the position of the first file with the base name of file j
First(j) == FirstNamed(files[j].name)

\* k when the base name of file j is the k-th distinct base name in scan order
Rank(j) == Cardinality({files[i].name : i \in 1..First(j)})

\* C5: with color mode, two files of the same base name have the same color,
\* whatever their extensions and directories: a file has the color of the first
\* file scanned with its base name; and the color of a scanned file never changes.
C5_SameNameSameColor ==
    /\ [](color =>
            \A i, j \in 1..Len(files) :
                files[i].name = files[j].name =>
                    /\ files[i].color = files[j].color
                    /\ files[j].color = files[First(j)].color)
    /\ [][/\ Len(files') >= Len(files)
          /\ \A i \in 1..Len(files) : files'[i].color = files[i].color]_vars

\* a header scanned in another directory, long after the source file of the same
\* base name and after the palette has wrapped around
C5_Witness ==
    /\ color
    /\ \E i, j \in 1..Len(files) :
          /\ i + PaletteSize < j
          /\ files[i].name = files[j].name
          /\ files[i].ext # files[j].ext
          /\ files[i].path # files[j].path
          /\ files[j - 1].color # files[j].color

\* C6: with color mode, the k-th distinct base name in scan order gets entry
\* (k-1) mod 35 of the 35-entry palette, and the palette has been drawn from once
\* per distinct base name (reusing a color draws nothing); without color mode
\* every file is 'black' and the palette is untouched.
C6_PaletteCycle ==
    /\ Len(COLOR_LIST) = PaletteSize
    /\ color =>
          /\ \A j \in 1..Len(files) :
                files[j].color = COLOR_LIST[((Rank(j) - 1) % PaletteSize) + 1]
          /\ colors = Cardinality(BaseNames) % PaletteSize
    /\ ~color =>
          /\ \A j \in 1..Len(files) : files[j].color = "black"
          /\ colors = 0

\* the palette has wrapped around: the 36th base name has the first color again,
\* after a color was reused for a file of a base name seen before
C6_Witness ==
    /\ color
    /\ Cardinality(BaseNames) > PaletteSize
    /\ \E i, j \in 1..Len(files) :
          /\ i < j /\ j <= PaletteSize
          /\ files[i].name = files[j].name
    /\ files[Len(files)].color = COLOR_LIST[1]
    /\ Rank(Len(files)) = PaletteSize + 1

====
